---- MODULE Spec2Model ----
(***************************************************************************)
(* A model of guard/guard.py: the Guard checkpoint manager.                *)
(*                                                                         *)
(* The file system of one experiment directory is three variables:        *)
(* meta_dir (meta/<id>.json), dump_dir (dump/<name>) and summary_file     *)
(* (summary.json).  Python dict objects that outlive one call live in     *)
(* heap, so that two references to one dict object stay two references to *)
(* one object: summary["last"] = meta stores a reference, json.dump       *)
(* writes a copy of the value, json.load builds fresh objects.            *)
(* Strings whose characters matter (mode, ids, file names) are sequences  *)
(* of one-character strings.                                              *)
(***************************************************************************)
EXTENDS Integers, Sequences, FiniteSets, TLC

\* ---------------------------------------------------------------- bounds
MaxCalls == 3

MaxVal == 2

MaxFails == 1

MaxExt == 1

MaxCrash == 1

\* ------------------------------------------------------- strings, dicts
IsPrefix(p, s) == Len(p) <= Len(s) /\ SubSeq(s, 1, Len(p)) = p

\* Python's `sub in s` on strings.
Contains(sub, s) == \E i \in 0..(Len(s) - Len(sub)) : SubSeq(s, i + 1, i + Len(sub)) = sub

\* os.path.splitext(name)[0]: the name up to its last dot, leading dots aside.
Splitext(name) ==
    LET dots == {i \in 2..Len(name) : name[i] = "." /\ \E j \in 1..(i - 1) : name[j] # "."}
    IN IF dots = {} THEN name
       ELSE SubSeq(name, 1, (CHOOSE i \in dots : \A j \in dots : j <= i) - 1)

EmptyDict == [k \in {} |-> 0]

\* d[k] = v on a Python dict.
DictSet(d, k, v) == [x \in DOMAIN d \cup {k} |-> IF x = k THEN v ELSE d[x]]

StrAll == <<"a", "l", "l">>

StrLast == <<"l", "a", "s", "t">>

StrBest == <<"b", "e", "s", "t">>

StrLastBest == <<"l", "a", "s", "t", ",", "b", "e", "s", "t">>

StrNone == <<"n", "o", "n", "e">>

Modes == {StrAll, StrLast, StrBest, StrLastBest, StrNone, <<>>}

\* best_key is None (<<>>) or the key "loss" (<<"loss">>).
BestKeys == {<<>>, <<"loss">>}

\* The value None where an id is expected; no file name equals it.
NoneId == <<"None">>

Digit(i) == <<"0", "1", "2", "3">>[i + 1]

\* str(uuid.uuid4()): the n-th id drawn; ids are distinct and of one length.
Uuid(n) == <<Digit(n \div 4), Digit(n % 4)>>

\* time.strftime(..., time.localtime(timestamp)): a rendering of the timestamp.
DateTime(ts) == <<"date", ts>>

DotP == <<".", "p">>

DotM == <<".", "m">>

\* What the caller puts in a metadata dict before a call.
CallerDicts == {EmptyDict} \cup {[k \in {"loss"} |-> v] : v \in 1..MaxVal}

\* The files a serialize may leave (suffixes of the path), by outcome.
SerializeOk == {{}, {DotP, DotM}}

SerializeRaise == {{}, {DotP}}

\* arts records, for every id, the files its serialize left (what no file
\* keeps once cleanup has removed them).
VARIABLES mode, best_key, cache, summary_cache, heap, nAlloc, meta_dir, dump_dir,
          summary_file, pc, cur, wsum, lastOp, outcome, ret, calls, done, pre,
          fails, exts, extDirty, hasRead, crashes, arts

vars == <<mode, best_key, cache, summary_cache, heap, nAlloc, meta_dir, dump_dir,
          summary_file, pc, cur, wsum, lastOp, outcome, ret, calls, done, pre,
          fails, exts, extDirty, hasRead, crashes, arts>>

config == <<mode, best_key, cache>>

ghosts == <<fails, exts, extDirty, hasRead, crashes>>

\* ------------------------------------------------------- summary objects
\* An entry of a summary dict: a reference to a dict object of the caller
\* (heap address) or a dict object nobody else holds (built by json.load).
Ref(a) == [k |-> "ref", a |-> a]

Val(d) == [k |-> "val", d |-> d]

Deref(e) == IF e.k = "ref" THEN heap[e.a] ELSE e.d

\* json.dump(summary): the value of the summary, references followed.
JsonDump(s) == [x \in DOMAIN s |-> Deref(s[x])]

\* json.load: fresh dict objects holding the file's value.
JsonLoad(data) == [x \in DOMAIN data |-> Val(data[x])]

NoFile == [exists |-> FALSE, complete |-> FALSE, data |-> EmptyDict]

\* The file after open(..., "w+") and before json.dump has finished.
Truncated == [exists |-> TRUE, complete |-> FALSE, data |-> EmptyDict]

Written(data) == [exists |-> TRUE, complete |-> TRUE, data |-> data]

\* ------------------------------------------------------------ get_summary
SummaryCached == summary_cache # <<>> /\ cache

\* json.load raises on a file that holds no complete JSON document.
SummaryReadable == SummaryCached \/ ~summary_file.exists \/ summary_file.complete

\* get_summary without lines 83-84: the file is read on every call.
get_summary_uncached == IF summary_file.exists THEN JsonLoad(summary_file.data) ELSE EmptyDict

get_summary ==
    IF SummaryCached THEN summary_cache[1]
    ELSE IF summary_file.exists THEN JsonLoad(summary_file.data)
    ELSE EmptyDict

\* summary.get(x, None), by value: <<>> for None.
SummaryGet(x) == IF x \in DOMAIN get_summary THEN <<Deref(get_summary[x])>> ELSE <<>>

\* ---------------------------------------------------------- update_summary
\* A comparator given (old, new) where the code gives (new, old).
best_compare_swapped(x, y) == y < x

best_compare(x, y) == x < y

\* The summary dict after lines 126-135, given the summary read and the
\* address of meta.  KeyError(s, a) says line 133 raises.
WithLast(s, a) == DictSet(s, "last", Ref(a))

BestUnconditional(s) == "best" \notin DOMAIN s \/ best_key[1] \notin DOMAIN Deref(s["best"])

KeyError(s, a) ==
    /\ best_key # <<>>
    /\ ~BestUnconditional(WithLast(s, a))
    /\ best_key[1] \notin DOMAIN heap[a]

UpdateBest(s, a) ==
    IF best_key = <<>> THEN s
    ELSE IF BestUnconditional(s) THEN DictSet(s, "best", Ref(a))
    ELSE IF best_compare(heap[a][best_key[1]], Deref(s["best"])[best_key[1]])
         THEN DictSet(s, "best", Ref(a))
         ELSE s

\* ------------------------------------------------------- cleanup, remove
\* summary.get(x, {}).get("id", None)
IdOf(s, x) ==
    IF x \in DOMAIN s /\ "id" \in DOMAIN Deref(s[x]) THEN Deref(s[x])["id"] ELSE NoneId

\* cleanup without lines 149-150: the best checkpoint is not kept.
cleanup_keep_last_only(s) == IF Contains(StrLast, mode) THEN {IdOf(s, "last")} ELSE {}

\* cleanup keeping the last checkpoint when the mode names nothing to keep.
cleanup_keep_last_by_default(s) ==
    IF Contains(StrBest, mode) \/ Contains(StrLast, mode)
    THEN (IF Contains(StrBest, mode) THEN {IdOf(s, "best")} ELSE {})
         \cup (IF Contains(StrLast, mode) THEN {IdOf(s, "last")} ELSE {})
    ELSE {IdOf(s, "last")}

cleanup_keep(s) ==
    (IF Contains(StrBest, mode) THEN {IdOf(s, "best")} ELSE {})
    \cup (IF Contains(StrLast, mode) THEN {IdOf(s, "last")} ELSE {})

\* remove deleting the file at path alone, not the files that start with it.
remove_exact_path(d, name) == d \ {name}

\* remove(path): the dump directory after it; name is basename(path).
remove(d, name) == {n \in d : ~IsPrefix(Splitext(name), n)}

\* cleanup leaving its loop after the first file it deletes.
cleanup_meta_first_only(m, keep) ==
    LET drop == {i \in DOMAIN m : i \notin keep}
        first == CHOOSE i \in drop : TRUE
    IN IF drop = {} THEN m ELSE [id \in DOMAIN m \ {first} |-> m[id]]

\* The meta directory after the loop of cleanup: the files whose id is kept.
cleanup_meta(m, keep) == [id \in {i \in DOMAIN m : i \in keep} |-> m[id]]

\* The dump directory after the loop of cleanup: remove() ran for every id dropped.
cleanup_dump(m, d, keep) == {n \in d : \A id \in DOMAIN m : id \in keep \/ n \in remove(d, id)}

\* cleanup without lines 145-146.
CleanupNeverSkips == FALSE

CleanupSkips == Contains(StrAll, mode)

\* cleanup pruning against the summary as it was before the call.
meta_after_cleanup_stale ==
    IF CleanupSkips THEN meta_dir
    ELSE cleanup_meta(meta_dir, cleanup_keep(JsonLoad(pre.summary.data)))

meta_after_cleanup == IF CleanupSkips THEN meta_dir ELSE cleanup_meta(meta_dir, cleanup_keep(get_summary))

dump_after_cleanup ==
    IF CleanupSkips THEN dump_dir ELSE cleanup_dump(meta_dir, dump_dir, cleanup_keep(get_summary))

\* ----------------------------------------------------------------- save_meta
\* meta.update({"id": ..., "timestamp": ..., "date_time": ...})
MetaUpdate(d, id, ts) ==
    DictSet(DictSet(DictSet(d, "id", id), "timestamp", ts), "date_time", DateTime(ts))

\* save_meta that does not get to write the file.
SaveMetaFileLost(m, id, rec) == m

\* The meta directory after json.dump(meta) to meta/<id>.json.
SaveMetaFile(m, id, rec) == [i \in DOMAIN m \cup {id} |-> IF i = id THEN rec ELSE m[i]]

\* ------------------------------------------------------------------- Init
NoCall == [addr |-> 0, id |-> NoneId, ts |-> 0, fields |-> EmptyDict, wrote |-> {}]

NoPre == [meta |-> EmptyDict, dump |-> {}, summary |-> NoFile]

Init ==
    /\ mode \in Modes
    /\ best_key \in BestKeys
    /\ cache \in BOOLEAN
    /\ summary_cache = <<>>
    /\ heap = [a \in 1..MaxCalls |-> EmptyDict]
    /\ nAlloc = 0
    /\ meta_dir = EmptyDict
    /\ dump_dir = {}
    /\ summary_file = NoFile
    /\ pc = "idle"
    /\ cur = NoCall
    /\ wsum = EmptyDict
    /\ lastOp = "init"
    /\ outcome = "ok"
    /\ ret = <<>>
    /\ calls = 0
    /\ done = <<>>
    /\ pre = NoPre
    /\ fails = 0
    /\ exts = 0
    /\ extDirty = FALSE
    /\ hasRead = FALSE
    /\ crashes = 0
    /\ arts = EmptyDict

\* ------------------------------------------------------------- checkpoint
\* checkpoint(meta, ...) up to the return of save_meta (line 210).  The dict
\* objects 1..nAlloc were passed to an earlier call, nAlloc + 1 is a new one;
\* fields is what the caller has put in the dict.  A call without meta passes
\* the one dict object of the default argument meta={}: a dict passed again.
\* time.time() is a clock that has advanced since the call before.
checkpoint(addr, fields) ==
    /\ pc = "idle"
    /\ calls < MaxCalls
    /\ LET id == Uuid(calls + 1)
           ts == calls + 1
           rec == MetaUpdate(fields, id, ts)
       IN /\ heap' = [heap EXCEPT ![addr] = rec]
          /\ meta_dir' = SaveMetaFile(meta_dir, id, rec)
          /\ cur' = [addr |-> addr, id |-> id, ts |-> ts, fields |-> fields, wrote |-> {}]
    /\ nAlloc' = IF addr > nAlloc THEN addr ELSE nAlloc
    /\ calls' = calls + 1
    /\ pre' = [meta |-> meta_dir, dump |-> dump_dir, summary |-> summary_file]
    /\ pc' = "serialize"
    /\ lastOp' = "checkpoint"
    /\ outcome' = "running"
    /\ ret' = <<>>
    /\ UNCHANGED <<config, summary_cache, dump_dir, summary_file, wsum, done, ghosts, arts>>

\* The files serialize leaves at path + suffix.
SerializeFiles(d, id, sufs) == d \cup {id \o s : s \in sufs}

\* line 212, serialize returns.
serialize_returns(sufs) ==
    /\ pc = "serialize"
    /\ dump_dir' = SerializeFiles(dump_dir, cur.id, sufs)
    /\ cur' = [cur EXCEPT !.wrote = sufs]
    /\ arts' = DictSet(arts, cur.id, sufs)
    /\ pc' = "update"
    /\ UNCHANGED <<config, summary_cache, heap, nAlloc, meta_dir, summary_file, wsum,
                   lastOp, outcome, ret, calls, done, pre, ghosts>>

\* line 212, serialize raises: checkpoint ends there.
serialize_raises(sufs) ==
    /\ pc = "serialize"
    /\ fails < MaxFails
    /\ fails' = fails + 1
    /\ dump_dir' = SerializeFiles(dump_dir, cur.id, sufs)
    /\ cur' = [cur EXCEPT !.wrote = sufs]
    /\ arts' = DictSet(arts, cur.id, sufs)
    /\ pc' = "idle"
    /\ outcome' = "serialize_raised"
    /\ UNCHANGED <<config, summary_cache, heap, nAlloc, meta_dir, summary_file, wsum,
                   lastOp, ret, calls, done, pre, exts, extDirty, hasRead, crashes>>

\* line 213: update_summary up to open(summary_file, "w+") in write_summary.
update_summary ==
    /\ pc = "update"
    /\ IF ~SummaryReadable
       THEN /\ pc' = "idle"
            /\ outcome' = "parse_error"
            /\ UNCHANGED <<summary_cache, summary_file, wsum>>
       ELSE IF KeyError(get_summary, cur.addr)
       THEN /\ pc' = "idle"
            /\ outcome' = "key_error"
            \* line 126 already changed the summary dict; the cache is that dict
            /\ summary_cache' = IF SummaryCached THEN <<WithLast(get_summary, cur.addr)>>
                                ELSE summary_cache
            /\ UNCHANGED <<summary_file, wsum>>
       ELSE LET s == UpdateBest(WithLast(get_summary, cur.addr), cur.addr)
            IN /\ summary_cache' = IF cache THEN <<s>> ELSE summary_cache
               /\ wsum' = s
               /\ summary_file' = Truncated
               /\ pc' = "dump"
               /\ outcome' = outcome
    /\ hasRead' = TRUE
    /\ extDirty' = IF pc' = "dump" THEN FALSE ELSE extDirty
    /\ UNCHANGED <<config, heap, nAlloc, meta_dir, dump_dir, cur, lastOp, ret, calls,
                   done, pre, fails, exts, crashes, arts>>

\* line 105: json.dump(summary, f) completes and the file is closed.
write_summary ==
    /\ pc = "dump"
    /\ summary_file' = Written(JsonDump(wsum))
    /\ pc' = "cleanup"
    /\ UNCHANGED <<config, summary_cache, heap, nAlloc, meta_dir, dump_dir, cur, wsum,
                   lastOp, outcome, ret, calls, done, pre, ghosts, arts>>

\* What serialize returns (line 212): a value of the subclass, made here of
\* the path it was given and the files it wrote.
SerializeResult(id, sufs) == [path |-> id, wrote |-> sufs]

\* What the caller expects the record of its call to be.
Expected(c) ==
    [k \in DOMAIN c.fields \cup {"id", "timestamp", "date_time"} |->
        IF k = "id" THEN c.id
        ELSE IF k = "timestamp" THEN c.ts
        ELSE IF k = "date_time" THEN DateTime(c.ts)
        ELSE c.fields[k]]

\* lines 214-215: cleanup, then checkpoint returns.
checkpoint_cleanup ==
    /\ pc = "cleanup"
    /\ meta_dir' = meta_after_cleanup
    /\ dump_dir' = dump_after_cleanup
    /\ pc' = "idle"
    /\ outcome' = "ok"
    /\ done' = Append(done, Expected(cur))
    /\ ret' = <<SerializeResult(cur.id, cur.wrote)>>
    /\ UNCHANGED <<config, summary_cache, heap, nAlloc, summary_file, cur, wsum,
                   lastOp, calls, pre, ghosts, arts>>

\* ------------------------------------------------------ other public calls
\* cleanup() called by the user.
cleanup ==
    /\ pc = "idle"
    /\ IF CleanupSkips \/ SummaryReadable
       THEN /\ meta_dir' = meta_after_cleanup
            /\ dump_dir' = dump_after_cleanup
            /\ outcome' = "ok"
       ELSE /\ outcome' = "parse_error"
            /\ UNCHANGED <<meta_dir, dump_dir>>
    /\ lastOp' = "cleanup"
    /\ ret' = <<>>
    /\ hasRead' = (hasRead \/ ~CleanupSkips)
    /\ UNCHANGED <<config, summary_cache, heap, nAlloc, summary_file, pc, cur, wsum,
                   calls, done, pre, fails, exts, extDirty, crashes, arts>>

Read(op, value) ==
    /\ pc = "idle"
    /\ lastOp' = op
    /\ IF SummaryReadable
       THEN outcome' = "ok" /\ ret' = value
       ELSE outcome' = "parse_error" /\ ret' = <<>>
    /\ hasRead' = TRUE
    /\ UNCHANGED <<config, summary_cache, heap, nAlloc, meta_dir, dump_dir, summary_file,
                   pc, cur, wsum, calls, done, pre, fails, exts, extDirty, crashes, arts>>

get_summary_call == Read("get_summary", <<JsonDump(get_summary)>>)

get_best == Read("get_best", SummaryGet("best"))

get_last == Read("get_last", SummaryGet("last"))

Next ==
    \/ \E addr \in 1..(nAlloc + 1), fields \in CallerDicts : checkpoint(addr, fields)
    \/ \E sufs \in SerializeOk : serialize_returns(sufs)
    \/ \E sufs \in SerializeRaise : serialize_raises(sufs)
    \/ update_summary
    \/ write_summary
    \/ checkpoint_cleanup
    \/ cleanup
    \/ get_summary_call
    \/ get_best
    \/ get_last

Spec == Init /\ [][Next]_vars

\* ------------------------------------------- another writer of summary.json
\* A record and the summaries another process may leave in summary.json.
ExtRec == MetaUpdate([k \in {"loss"} |-> 0], <<"e", "x">>, 0)

ExtSummaries == {[x \in {"last"} |-> ExtRec], [x \in {"last", "best"} |-> ExtRec]}

\* Another process overwrites summary.json while this instance is between calls.
external_write(data) ==
    /\ pc = "idle"
    /\ exts < MaxExt
    /\ exts' = exts + 1
    /\ extDirty' = TRUE
    /\ summary_file' = Written(data)
    /\ lastOp' = "external"
    /\ outcome' = "ok"
    /\ ret' = <<>>
    /\ UNCHANGED <<config, summary_cache, heap, nAlloc, meta_dir, dump_dir, pc, cur, wsum,
                   calls, done, pre, fails, hasRead, crashes, arts>>

NextExt ==
    \/ Next
    \/ \E data \in ExtSummaries : external_write(data)

\* Caching is on (the case the cache matters in); two of the modes.
InitExt ==
    /\ Init
    /\ cache
    /\ mode \in {StrAll, StrLastBest}

SpecExt == InitExt /\ [][NextExt]_vars

\* ------------------------------------------------------- crash and restart
\* The process dies at any point of a call or between calls; a new process
\* constructs a Guard on the same directory with the same arguments
\* (__init__: self._summary = None).  The files stay as they are.
crash ==
    /\ crashes < MaxCrash
    /\ crashes' = crashes + 1
    /\ summary_cache' = <<>>
    /\ heap' = [a \in 1..MaxCalls |-> EmptyDict]
    /\ nAlloc' = 0
    /\ wsum' = EmptyDict
    /\ pc' = "idle"
    /\ lastOp' = "crash"
    /\ outcome' = IF pc = "idle" THEN "ok" ELSE pc
    /\ ret' = <<>>
    /\ hasRead' = FALSE
    /\ extDirty' = FALSE
    /\ UNCHANGED <<config, meta_dir, dump_dir, summary_file, cur, calls, done, pre, fails, exts, arts>>

NextCrash ==
    \/ Next
    \/ crash

InitCrash ==
    /\ Init
    /\ mode \in {StrAll, StrLastBest}

SpecCrash == InitCrash /\ [][NextCrash]_vars

\* -------------------------------------------- a new instance, other arguments
\* Between two calls the program ends, and a later run constructs a Guard on
\* the same directory with a best_key and a cache argument of its own
\* (__init__: self._summary = None; no file is touched).
reconstruct(bk, c) ==
    /\ pc = "idle"
    /\ crashes < MaxCrash
    /\ crashes' = crashes + 1
    /\ best_key' = bk
    /\ cache' = c
    /\ summary_cache' = <<>>
    /\ heap' = [a \in 1..MaxCalls |-> EmptyDict]
    /\ nAlloc' = 0
    /\ wsum' = EmptyDict
    /\ lastOp' = "construct"
    /\ outcome' = "ok"
    /\ ret' = <<>>
    /\ hasRead' = FALSE
    /\ extDirty' = FALSE
    /\ UNCHANGED <<mode, meta_dir, dump_dir, summary_file, pc, cur, calls, done, pre,
                   fails, exts, arts>>

NextRestart ==
    \/ Next
    \/ \E bk \in BestKeys, c \in BOOLEAN : reconstruct(bk, c)

InitRestart ==
    /\ Init
    /\ mode \in {StrAll, StrBest}

SpecRestart == InitRestart /\ [][NextRestart]_vars

\* ------------------------------------------------- remove on any directory
ShortIds == {<<"1">>, <<"1", "0">>, <<"2">>}

DumpNames == {id \o suf : id \in ShortIds, suf \in {<<>>, DotP, DotM}}

\* A Guard on a directory whose dump/ holds files of any names.
InitRemove ==
    /\ Init
    /\ mode = StrAll
    /\ best_key = <<>>
    /\ cache

\* The dump directory is filled by serialize calls of any path.
serialize_any(name) ==
    /\ pc = "idle"
    /\ lastOp \in {"init", "serialize"}
    /\ name \notin dump_dir
    /\ dump_dir' = dump_dir \cup {name}
    /\ lastOp' = "serialize"
    /\ UNCHANGED <<config, summary_cache, heap, nAlloc, meta_dir, summary_file, pc, cur,
                   wsum, outcome, ret, calls, done, pre, ghosts, arts>>

\* remove(os.path.join(self._dump_path, id)) called by the user.
remove_call(id) ==
    /\ pc = "idle"
    /\ lastOp = "serialize"
    /\ dump_dir' = remove(dump_dir, id)
    /\ lastOp' = "remove"
    /\ cur' = [NoCall EXCEPT !.id = id]
    /\ pre' = [pre EXCEPT !.dump = dump_dir]
    /\ UNCHANGED <<config, summary_cache, heap, nAlloc, meta_dir, summary_file, pc,
                   wsum, outcome, ret, calls, done, ghosts, arts>>

NextRemove ==
    \/ \E name \in DumpNames : serialize_any(name)
    \/ \E id \in ShortIds : remove_call(id)

SpecRemove == InitRemove /\ [][NextRemove]_vars

\* ------------------------------------------- deserialize_best, get_history
\* deserialize_best(): line 302 reads the summary and raises KeyError when it
\* has no `best`; line 304 calls deserialize on dump/<id of best>.  ret is
\* the id in the path deserialize was called with.
deserialize_best ==
    /\ pc = "idle"
    /\ lastOp' = "deserialize_best"
    /\ IF ~SummaryReadable THEN outcome' = "parse_error" /\ ret' = <<>>
       ELSE IF "best" \notin DOMAIN get_summary THEN outcome' = "key_error" /\ ret' = <<>>
       ELSE outcome' = "ok" /\ ret' = <<IdOf(get_summary, "best")>>
    /\ hasRead' = TRUE
    /\ UNCHANGED <<config, summary_cache, heap, nAlloc, meta_dir, dump_dir, summary_file,
                   pc, cur, wsum, calls, done, pre, fails, exts, extDirty, crashes, arts>>

\* line 365: the records in ascending order of d.get("timestamp", 0).
Timestamp(d) == IF "timestamp" \in DOMAIN d THEN d["timestamp"] ELSE 0

SortByTimestamp(m) ==
    CHOOSE q \in [1..Cardinality(DOMAIN m) -> DOMAIN m] :
        /\ \A i, j \in DOMAIN q : i # j => q[i] # q[j]
        /\ \A i, j \in DOMAIN q : i < j => Timestamp(m[q[i]]) <= Timestamp(m[q[j]])

SortedMeta(m) == [i \in 1..Cardinality(DOMAIN m) |-> m[SortByTimestamp(m)[i]]]

\* lines 368-376, one pass of the loop: meta is the n-th record (from 0).
\* A value is <<v>>, None is <<>>.
HistoryStep(h, n, meta) ==
    [k \in DOMAIN h \cup DOMAIN meta |->
        IF k \in DOMAIN h
        THEN Append(h[k], IF k \in DOMAIN meta THEN <<meta[k]>> ELSE <<>>)
        ELSE Append([i \in 1..n |-> <<>>], <<meta[k]>>)]

RECURSIVE HistoryFold(_, _)
\* lines 366-377: the loop over the first n records of all_meta.
HistoryFold(recs, n) ==
    IF n = 0 THEN EmptyDict ELSE HistoryStep(HistoryFold(recs, n - 1), n - 1, recs[n])

\* line 364: json.load is mapped over the file names (strings, not open
\* files), so it raises AttributeError on the first name there is.
LoadRaises(m) == DOMAIN m # {}

\* get_history(): {} on an empty meta/, AttributeError otherwise.
get_history ==
    /\ pc = "idle"
    /\ lastOp' = "get_history"
    /\ IF LoadRaises(meta_dir) THEN outcome' = "attribute_error" /\ ret' = <<>>
       ELSE outcome' = "ok" /\ ret' = <<HistoryFold(<<>>, 0)>>
    /\ UNCHANGED <<config, summary_cache, heap, nAlloc, meta_dir, dump_dir, summary_file,
                   pc, cur, wsum, calls, done, pre, ghosts, arts>>

NextRead ==
    \/ Next
    \/ deserialize_best
    \/ get_history

\* The modes that name one thing to keep, or everything.
InitRead ==
    /\ Init
    /\ mode \in {StrAll, StrLast, StrBest}

SpecRead == InitRead /\ [][NextRead]_vars

\* ================================================================ claims
Idle == pc = "idle"

\* A checkpoint call has just returned normally.
AfterCheckpointOk == pc = "idle" /\ lastOp = "checkpoint" /\ outcome = "ok"

\* Every checkpoint call so far returned normally.
AllCallsOk == Len(done) = calls

\* A dump file belongs to an id: its name is the id, or the id followed by a dot.
Belongs(n, id) == n = id \/ IsPrefix(id \o <<".">>, n)

LastDone == done[Len(done)]

\* The ids drawn so far that have a file in dump/.
DumpIds == {id \in {Uuid(i) : i \in 1..calls} : \E n \in dump_dir : Belongs(n, id)}

\* C1: in mode `all`, after N >= 1 checkpoint calls that all succeeded,
\* get_last() returns the record of the N-th call (the caller's fields plus
\* id, timestamp, date_time) and meta/ holds exactly N records, one per call,
\* with pairwise distinct ids.
C1_AllKeepsEveryRecord ==
    (Idle /\ mode = StrAll /\ calls >= 1 /\ AllCallsOk) =>
        /\ SummaryGet("last") = <<LastDone>>
        /\ (lastOp = "get_last" => ret = <<LastDone>>)
        /\ Cardinality(DOMAIN meta_dir) = Len(done)
        /\ \A i \in 1..Len(done) :
              /\ done[i]["id"] \in DOMAIN meta_dir
              /\ meta_dir[done[i]["id"]] = done[i]
        /\ \A i, j \in 1..Len(done) : i # j => done[i]["id"] # done[j]["id"]

C1_Witness ==
    /\ mode = StrAll
    /\ Len(done) = 3
    /\ AllCallsOk
    /\ lastOp = "get_last"
    /\ ret = <<LastDone>>
    /\ "loss" \in DOMAIN LastDone
    /\ Cardinality(DOMAIN meta_dir) = 3

\* The first checkpoint of the least best_key value among those made.
MinIndex ==
    CHOOSE i \in 1..Len(done) :
        \A j \in 1..Len(done) :
            /\ done[i]["loss"] <= done[j]["loss"]
            /\ (j < i => done[j]["loss"] > done[i]["loss"])

AllCarryLoss == \A i \in 1..Len(done) : "loss" \in DOMAIN done[i]

\* C2: with best_key configured and the default comparator, after any
\* sequence of successful checkpoint calls that each carry a best_key value,
\* get_best() returns the record of the checkpoint of minimum best_key value
\* (the earliest on ties).
C2_BestIsMinimum ==
    (Idle /\ best_key # <<>> /\ calls >= 1 /\ AllCallsOk /\ AllCarryLoss) =>
        SummaryGet("best") = <<done[MinIndex]>>

\* The same when every call passed a dict object of its own (checked beside
\* C2: the fold itself is right, the shared dict object is what breaks it).
BestIsMinimumOfOwnDicts ==
    (Idle /\ best_key # <<>> /\ calls >= 1 /\ AllCallsOk /\ AllCarryLoss /\ nAlloc = calls) =>
        SummaryGet("best") = <<done[MinIndex]>>

\* C3: in mode `last`, after every successful checkpoint call, meta/ holds
\* exactly one record, that of the most recent checkpoint, and dump/ holds
\* exactly the files its serialize wrote: artifacts of that one id (when it
\* wrote any) and of no earlier checkpoint.
C3_LastKeepsOnlyLast ==
    (AfterCheckpointOk /\ mode = StrLast) =>
        /\ cur.id = LastDone["id"]
        /\ DOMAIN meta_dir = {cur.id}
        /\ meta_dir[cur.id] = LastDone
        /\ dump_dir = {cur.id \o suf : suf \in cur.wrote}
        /\ \A n \in dump_dir : Belongs(n, cur.id)
        /\ (cur.wrote # {} => DumpIds = {cur.id})

C3_Witness ==
    /\ AfterCheckpointOk
    /\ mode = StrLast
    /\ Len(done) = 3
    /\ cur.wrote = {DotP, DotM}
    /\ Cardinality(dump_dir) = 2

\* The ids the summary names as best and last.
SummaryIds == {r["id"] : r \in {SummaryGet("best")[i] : i \in DOMAIN SummaryGet("best")}
                                \cup {SummaryGet("last")[i] : i \in DOMAIN SummaryGet("last")}}

\* C4: in mode `last,best` with best_key configured, after every successful
\* checkpoint call the ids with a record in meta/ are exactly the ids of
\* summary.best and summary.last, and every file of dump/ belongs to one of them.
C4_LastBestKeepsBoth ==
    (AfterCheckpointOk /\ mode = StrLastBest /\ best_key # <<>>) =>
        /\ SummaryGet("best") # <<>>
        /\ SummaryGet("last") # <<>>
        /\ DOMAIN meta_dir = SummaryIds
        /\ \A n \in dump_dir : \E id \in SummaryIds : Belongs(n, id)
        /\ summary_file.complete
        /\ {summary_file.data[x]["id"] : x \in DOMAIN summary_file.data} = SummaryIds

C4_Witness ==
    /\ AfterCheckpointOk
    /\ mode = StrLastBest
    /\ best_key # <<>>
    /\ Len(done) = 3
    /\ Cardinality(DOMAIN meta_dir) = 2
    /\ SummaryGet("best") = <<done[2]>>
    /\ Cardinality(dump_dir) = 4

Unrecognized ==
    /\ ~Contains(StrAll, mode)
    /\ ~Contains(StrLast, mode)
    /\ ~Contains(StrBest, mode)

\* C5: when the mode contains none of all, last, best, after every checkpoint
\* call meta/ and dump/ hold no checkpoint, the one just made included, while
\* the summary records it as last.
C5_UnrecognizedKeepsNothing ==
    (AfterCheckpointOk /\ Unrecognized) =>
        /\ meta_dir = EmptyDict
        /\ dump_dir = {}
        /\ SummaryGet("last") = <<LastDone>>
        /\ summary_file = Written(JsonDump(get_summary))
        /\ summary_file.data["last"] = LastDone

C5_Witness ==
    /\ AfterCheckpointOk
    /\ Unrecognized
    /\ mode = <<>>
    /\ cur.wrote # {}
    /\ Len(done) = 2
    /\ meta_dir = EmptyDict

\* C6: cleanup is idempotent.  In a state some cleanup has just left (the call
\* cleanup(), or the cleanup that ends a checkpoint), one more cleanup raises
\* nothing and leaves meta/ and dump/ as they are; it does not touch the summary.
C6_CleanupIdempotent ==
    (Idle /\ outcome = "ok" /\ lastOp \in {"cleanup", "checkpoint"}) =>
        /\ SummaryReadable
        /\ meta_after_cleanup = meta_dir
        /\ dump_after_cleanup = dump_dir

C6_Witness ==
    /\ Idle
    /\ lastOp = "cleanup"
    /\ outcome = "ok"
    /\ fails = 1
    /\ cur.id \notin DOMAIN meta_dir
    /\ meta_dir # EmptyDict
    /\ Cardinality(DOMAIN meta_dir) < calls

\* C7: if serialize raises, checkpoint raises; the record written for the
\* attempt is in meta/, summary.json is as it was before the call, and no
\* file that was in meta/ or dump/ before the call is gone.
C7_SerializeFailureLeavesOrphan ==
    (Idle /\ lastOp = "checkpoint" /\ outcome = "serialize_raised") =>
        /\ cur.id \in DOMAIN meta_dir
        /\ meta_dir[cur.id] = Expected(cur)
        /\ summary_file = pre.summary
        /\ \A id \in DOMAIN pre.meta : id \in DOMAIN meta_dir /\ meta_dir[id] = pre.meta[id]
        /\ pre.dump \subseteq dump_dir

C7_Witness ==
    /\ Idle
    /\ lastOp = "checkpoint"
    /\ outcome = "serialize_raised"
    /\ mode = StrLast
    /\ Len(done) = 1
    /\ Cardinality(DOMAIN meta_dir) = 2
    /\ summary_file.complete

\* A step in which another process overwrites summary.json.
ExternalStep == exts' = exts + 1

\* C8 as stated: with caching on, once this instance has read the summary,
\* an external change of summary.json does not change what get_summary returns.
C8_InvisibleAfterFirstRead ==
    [][(cache /\ hasRead /\ ExternalStep) => JsonDump(get_summary)' = JsonDump(get_summary)]_vars

\* C8 as amended: with caching on, once this instance has written the summary
\* (its cache is set), an external change of summary.json does not change
\* what get_summary, get_last and get_best return.
C8_InvisibleAfterFirstWrite ==
    [][(cache /\ summary_cache # <<>> /\ ExternalStep) =>
            /\ JsonDump(get_summary)' = JsonDump(get_summary)
            /\ SummaryGet("last")' = SummaryGet("last")
            /\ SummaryGet("best")' = SummaryGet("best")]_vars

C8_Witness ==
    /\ cache
    /\ summary_cache # <<>>
    /\ extDirty
    /\ lastOp = "get_last"
    /\ ret = <<LastDone>>
    /\ summary_file.data["last"] = ExtRec

\* C9: remove(id) deletes every dump/ file that belongs to id and no file
\* that belongs to another id.
C9_RemoveOnlyOwnFiles ==
    (lastOp = "remove") =>
        /\ \A n \in pre.dump : Belongs(n, cur.id) => n \notin dump_dir
        /\ \A n \in pre.dump : ~Belongs(n, cur.id) => n \in dump_dir

\* C10: summary.json always holds a complete summary (or does not exist yet)
\* when a reader comes to it, whatever happened to the last writer.
C10_SummaryNeverPartial == Idle => (~summary_file.exists \/ summary_file.complete)

\* The last checkpoint call returned normally.
LastCheckpointOk == Len(done) >= 1 /\ LastDone["id"] = cur.id

\* The files serialize left for an id.
ArtifactsOf(id) == IF id \in DOMAIN arts THEN {id \o suf : suf \in arts[id]} ELSE {}

KeepsBest == Contains(StrAll, mode) \/ Contains(StrBest, mode)

\* deserialize_best was called on dump/<id of summary.best> and the files
\* serialized for that id are in dump/.
BestArtifactsPresent ==
    /\ outcome = "ok"
    /\ ret = <<IdOf(get_summary, "best")>>
    /\ ArtifactsOf(ret[1]) \subseteq dump_dir

\* C11 as stated: after a successful checkpoint that produced an artifact,
\* with best_key configured, deserialize_best calls deserialize on
\* dump/<id of summary.best> and the files serialized for that id are still
\* in dump/, in every retention mode.
C11_BestArtifactsAnyMode ==
    (lastOp = "deserialize_best" /\ LastCheckpointOk /\ cur.wrote # {} /\ best_key # <<>>) =>
        BestArtifactsPresent

\* C11 as amended: the same in the retention modes that keep the best
\* checkpoint (the mode contains `all` or `best`).
C11_BestArtifactsKept ==
    (lastOp = "deserialize_best" /\ LastCheckpointOk /\ cur.wrote # {} /\ best_key # <<>>
        /\ KeepsBest) => BestArtifactsPresent

C11_Witness ==
    /\ lastOp = "deserialize_best"
    /\ outcome = "ok"
    /\ mode = StrBest
    /\ best_key # <<>>
    /\ Len(done) = 3
    /\ AllCallsOk
    /\ cur.wrote # {}
    /\ ret = <<done[2]["id"]>>
    /\ ArtifactsOf(ret[1]) = {ret[1] \o DotP, ret[1] \o DotM}
    /\ ArtifactsOf(ret[1]) \subseteq dump_dir
    /\ DOMAIN meta_dir = {ret[1]}

\* The history the claim describes for the records of meta/: one sequence per
\* field name, as long as there are records, holding at position i the value
\* of the field in the i-th record by timestamp, or None.
ClaimedHistory ==
    LET recs == SortedMeta(meta_dir)
    IN [k \in UNION {DOMAIN recs[i] : i \in DOMAIN recs} |->
           [i \in DOMAIN recs |-> IF k \in DOMAIN recs[i] THEN <<recs[i][k]>> ELSE <<>>]]

\* C12: get_history returns one sequence per field name that appears in any
\* record, each as long as there are records, holding at position i the
\* field's value in the i-th record in ascending timestamp order and None
\* exactly where the record lacks the field.
C12_HistoryPerField ==
    (lastOp = "get_history") => (outcome = "ok" /\ ret = <<ClaimedHistory>>)

\* The loop of get_history on the records themselves gives the history
\* claimed (checked beside C12: the loop is right, the loading is what fails).
HistoryLoopOnRecords ==
    HistoryFold(SortedMeta(meta_dir), Cardinality(DOMAIN meta_dir)) = ClaimedHistory

\* C13: get_best() returns None without raising whenever no best record
\* exists yet or the instance has no best_key, and the summary (the one the
\* instance reads, and summary.json) holds a `best` entry only if the instance
\* has a best_key, also on a directory that already had a summary file.
C13_BestOnlyIfConfigured ==
    Idle =>
        /\ (lastOp = "get_best" =>
               /\ outcome = "ok"
               /\ ((best_key = <<>> \/ "best" \notin DOMAIN get_summary) => ret = <<>>))
        /\ ("best" \in DOMAIN get_summary => best_key # <<>>)
        /\ ("best" \in DOMAIN summary_file.data => best_key # <<>>)

\* C14: within one checkpoint call the metadata is written, then serialize
\* runs on dump/<id>, then the summary is updated, then cleanup runs once.
\* So: while serialize runs the record is in meta/ and the summary is as
\* before the call; the summary changes only after serialize has returned;
\* whenever summary.json names a record as last, that record is the one
\* written for a call whose serialize has returned; cleanup runs on the
\* summary that names the new checkpoint as last, so a mode that keeps `last`
\* keeps the new checkpoint; checkpoint returns what serialize returned.
C14_CheckpointOrder ==
    /\ (pc = "serialize" =>
           /\ cur.id \in DOMAIN meta_dir
           /\ meta_dir[cur.id] = Expected(cur)
           /\ cur.id \notin DOMAIN arts
           /\ summary_file = pre.summary)
    /\ (pc = "update" =>
           /\ cur.id \in DOMAIN arts
           /\ summary_file = pre.summary
           /\ \A id \in DOMAIN pre.meta : id \in DOMAIN meta_dir)
    /\ (pc = "cleanup" =>
           /\ summary_file.complete
           /\ summary_file.data["last"] = Expected(cur)
           /\ IdOf(get_summary, "last") = cur.id
           /\ DOMAIN meta_dir = DOMAIN pre.meta \cup {cur.id}
           /\ dump_dir = pre.dump \cup ArtifactsOf(cur.id))
    /\ ((summary_file.complete /\ "last" \in DOMAIN summary_file.data) =>
           \/ \E i \in 1..Len(done) : summary_file.data["last"] = done[i]
           \/ pc = "cleanup" /\ summary_file.data["last"] = Expected(cur))
    /\ (AfterCheckpointOk =>
           /\ ret = <<SerializeResult(cur.id, cur.wrote)>>
           /\ summary_file.data["last"] = LastDone
           /\ (Contains(StrLast, mode) =>
                  /\ cur.id \in DOMAIN meta_dir
                  /\ ArtifactsOf(cur.id) \subseteq dump_dir))

C14_Witness ==
    /\ AfterCheckpointOk
    /\ mode = StrLast
    /\ Len(done) = 2
    /\ cur.wrote = {DotP, DotM}
    /\ ret = <<SerializeResult(cur.id, cur.wrote)>>
    /\ DOMAIN meta_dir = {cur.id}
    /\ summary_file.data["last"]["id"] = cur.id

\* The step of update_summary that returns, and the one that raises KeyError.
UpdateReturns == pc = "update" /\ pc' = "dump"

UpdateKeyError == pc = "update" /\ outcome' = "key_error"

\* The summary update_summary hands to write_summary, by value.
NewSummary == JsonDump(wsum)

\* C15: update_summary, given the summary it read and the new record.  With
\* best_key configured, if the summary has no `best` or its best lacks
\* best_key, the new record becomes best whatever the values; otherwise best
\* becomes the new record if new value < old value (the comparator on
\* (new, old)) and stays as read if not.  Without best_key, `best` is left as
\* read.  `last` becomes the new record in every case, also in the summary
\* dict of a call that raises KeyError.
C15_FoldRule ==
    [][/\ (UpdateReturns =>
              LET s == get_summary
                  key == best_key[1]
              IN /\ NewSummary'["last"] = Expected(cur)
                 /\ (best_key # <<>> /\ ("best" \notin DOMAIN s \/ key \notin DOMAIN Deref(s["best"]))
                        => NewSummary'["best"] = Expected(cur))
                 /\ (best_key # <<>> /\ "best" \in DOMAIN s /\ key \in DOMAIN Deref(s["best"])
                        => /\ key \in DOMAIN Expected(cur)
                           /\ NewSummary'["best"] =
                                  IF Expected(cur)[key] < Deref(s["best"])[key]
                                  THEN Expected(cur) ELSE Deref(s["best"]))
                 /\ (best_key = <<>>
                        => /\ ("best" \in DOMAIN NewSummary') = ("best" \in DOMAIN s)
                           /\ ("best" \in DOMAIN s => NewSummary'["best"] = Deref(s["best"])))
                 /\ DOMAIN NewSummary' \subseteq DOMAIN s \cup {"last", "best"})
       /\ (UpdateKeyError =>
              /\ summary_file' = summary_file
              /\ (SummaryCached =>
                     /\ SummaryGet("last")' = <<Expected(cur)>>
                     /\ SummaryGet("best")' = SummaryGet("best")))]_vars

C15_Witness ==
    /\ pc = "dump"
    /\ best_key # <<>>
    /\ Len(done) = 2
    /\ NewSummary["last"] = Expected(cur)
    /\ NewSummary["best"] = Expected(cur)
    /\ "best" \in DOMAIN pre.summary.data
    /\ pre.summary.data["best"] = done[1]
    /\ "loss" \in DOMAIN done[1]
    /\ "loss" \in DOMAIN cur.fields
    /\ done[1]["loss"] > cur.fields["loss"]

\* A new instance was constructed between two calls (not in the middle of one).
RestartedBetweenCalls == crashes >= 1 /\ AllCallsOk

\* C16: a new instance on an existing directory starts with an empty cache,
\* its first read returns the persisted summary, and its checkpoints fold
\* into the persisted best: with best_key configured, after a restart
\* get_best() returns the record of the checkpoint of minimum best_key value
\* among the checkpoints of both instances.
C16_BestAcrossRestart ==
    /\ (lastOp = "crash" => summary_cache = <<>>)
    /\ ((lastOp = "crash" /\ outcome = "ok") =>
           /\ SummaryReadable
           /\ JsonDump(get_summary) = summary_file.data)
    /\ ((Idle /\ RestartedBetweenCalls /\ best_key # <<>> /\ calls >= 1 /\ AllCarryLoss) =>
           SummaryGet("best") = <<done[MinIndex]>>)

\* The same without caching, where the summary never holds a dict of the
\* caller (checked beside C16: the restart itself loses nothing).
BestAcrossRestartUncached ==
    ~cache => C16_BestAcrossRestart

\* The step of checkpoint in which save_meta fills the dict it was given.
SaveMetaStep == pc = "idle" /\ pc' = "serialize"

\* C17: the best and last entries of the summary are snapshots: a later
\* checkpoint call, when it fills the dict it was given (the same dict as an
\* earlier call or not), does not change the id or the fields of the records
\* the summary holds as best and last.
C17_RecordedBestIsSnapshot ==
    [][SaveMetaStep =>
          /\ SummaryGet("best")' = SummaryGet("best")
          /\ SummaryGet("last")' = SummaryGet("last")]_vars

\* The same for calls that each pass a dict object of their own (checked
\* beside C17).
SnapshotOfOwnDicts ==
    [][(SaveMetaStep /\ nAlloc' > nAlloc) =>
          /\ SummaryGet("best")' = SummaryGet("best")
          /\ SummaryGet("last")' = SummaryGet("last")]_vars

\* summary.get(x, None) of the summary held by summary.json, by value.
DiskGet(x) == IF x \in DOMAIN summary_file.data THEN <<summary_file.data[x]>> ELSE <<>>

\* What the read just made returns when the summary is read from summary.json.
UncachedReturn ==
    IF lastOp = "get_summary" THEN <<summary_file.data>>
    ELSE IF lastOp = "get_best" THEN DiskGet("best")
    ELSE DiskGet("last")

ReadOps == {"get_summary", "get_best", "get_last"}

\* C18: for a single instance that is the only writer, caching cannot be
\* observed.  An instance without caching returns from every read what
\* summary.json holds, and the claim gives both instances the same files
\* after every step; so with caching on, every get_summary, get_best and
\* get_last returns what summary.json holds at that moment, and cleanup
\* leaves the directories it would leave on the summary read from the file.
C18_CacheUnobservable ==
    (Idle /\ cache /\ outcome = "ok") =>
        /\ (lastOp \in ReadOps => ret = UncachedReturn)
        /\ cleanup_keep(get_summary) = cleanup_keep(JsonLoad(summary_file.data))

\* The same when every call passed a dict object of its own and none raised
\* KeyError (checked beside C18).
CacheUnobservableOwnDicts ==
    (nAlloc = calls /\ calls = Len(done) + fails) => C18_CacheUnobservable

\* C19: cache coherence under a single writer.  With caching on, between
\* calls (after every public operation has returned or raised) the cached
\* summary, if set, has the value summary.json holds.
C19_CacheCoherent ==
    (Idle /\ cache /\ summary_cache # <<>>) =>
        /\ summary_file.complete
        /\ JsonDump(summary_cache[1]) = summary_file.data

====
